---- MODULE Spec2Model ----
(***************************************************************************)
(* Model of the Lane-Emden solver of Lane-Emden/figs/Lane-Emden.ipynb:     *)
(* the derivative function LE, the series starter center, the stepper rk4  *)
(* and the driver integrate.                                               *)
(*                                                                         *)
(* Floating-point numbers are modelled as a small floating format: a       *)
(* finite value is an integer count of 1/Scale units, of magnitude at most *)
(* MaxMag; results are rounded to the nearest unit, a finite result above  *)
(* MaxMag overflows to an infinity, and division by zero and the undefined *)
(* forms give inf / nan as IEEE-754 arithmetic under numpy does (a warning,*)
(* not an exception).                                                      *)
(*                                                                         *)
(* The state is one call of integrate(): its arguments and its local       *)
(* variables, with pc the position of the call.                            *)
(***************************************************************************)
EXTENDS Integers, Sequences, FiniteSets, TLC

VARIABLES
    pc,             \* "STARTING", "STEPPING", "TERMINATING" or "DONE"
    n,              \* the index, as the integer 2n
    h_arg,          \* the h the caller passed
    nstps, prec, dx_store,
    h,              \* the local h: the argument, then the step size
    x, y,           \* the dense arrays
    x_store, y_store, str_ptr,
    i,              \* the loop index: the last iteration begun
    dydx,           \* LE(x[i-1],y[i-1,:],n) of the last iteration
    H_P,
    ret,            \* what the call returned
    center_calls, rk4_calls     \* how often center and rk4 were called

vars == <<pc, n, h_arg, nstps, prec, dx_store, h, x, y, x_store, y_store,
          str_ptr, i, dydx, H_P, ret, center_calls, rk4_calls>>

\* ------------------------------------------------------------- bounds
\* units per 1.0, and the largest finite magnitude
Scale == 1000
MaxMag == 1000
\* the largest nstps a call is made with
MaxSteps == 16

MaxAbs == MaxMag * Scale

\* ------------------------------------------------------- float values
Fin(v) == [k |-> "fin", v |-> v]
Inf(s) == [k |-> "inf", v |-> s]
NaN == [k |-> "nan", v |-> 0]

IsFin(a) == a.k = "fin"
IsInf(a) == a.k = "inf"
IsNaN(a) == a.k = "nan"

Abs(m) == IF m < 0 THEN -m ELSE m
Sgn(m) == IF m < 0 THEN -1 ELSE IF m > 0 THEN 1 ELSE 0

\* a / b for integers, b # 0, rounded to the nearest integer
RoundDiv(a, b) ==
    LET q == Abs(a) \div Abs(b)
        r == Abs(a) % Abs(b)
        m == IF 2 * r >= Abs(b) THEN q + 1 ELSE q
    IN  IF Sgn(a) * Sgn(b) < 0 THEN -m ELSE m

\* a finite result, overflowing to an infinity
Norm(v) == IF v > MaxAbs THEN Inf(1) ELSE IF v < -MaxAbs THEN Inf(-1) ELSE Fin(v)

Zero == Fin(0)
One == Fin(Scale)
\* the literal num/den
Lit(num, den) == Fin(RoundDiv(num * Scale, den))

\* Each operation is applied to the values of its operands: an operand is
\* evaluated once, as Python evaluates it, and FMul(a, b) is FMulOf of the
\* two values.
FNegOf(a) == IF IsNaN(a) THEN NaN ELSE [a EXCEPT !.v = -a.v]
FNeg(a) == CHOOSE r \in {FNegOf(p) : p \in {a}} : TRUE

FAbsOf(a) == IF IsNaN(a) THEN NaN ELSE [a EXCEPT !.v = Abs(a.v)]
FAbs(a) == CHOOSE r \in {FAbsOf(p) : p \in {a}} : TRUE

FAddOf(a, b) ==
    IF IsNaN(a) \/ IsNaN(b) THEN NaN
    ELSE IF IsInf(a) /\ IsInf(b) THEN (IF a.v = b.v THEN a ELSE NaN)
    ELSE IF IsInf(a) THEN a
    ELSE IF IsInf(b) THEN b
    ELSE Norm(a.v + b.v)
FAdd(a, b) == CHOOSE r \in {FAddOf(p[1], p[2]) : p \in {<<a, b>>}} : TRUE

FSub(a, b) == FAdd(a, FNeg(b))

FMulOf(a, b) ==
    IF IsNaN(a) \/ IsNaN(b) THEN NaN
    ELSE IF IsInf(a) \/ IsInf(b)
         THEN (IF Sgn(a.v) * Sgn(b.v) = 0 THEN NaN ELSE Inf(Sgn(a.v) * Sgn(b.v)))
    ELSE LET A == Abs(a.v)
             q == Abs(b.v) \div Scale
             r == Abs(b.v) % Scale
             s == Sgn(a.v) * Sgn(b.v)
         IN  IF A # 0 /\ q > MaxAbs \div A THEN Inf(s)
             ELSE Norm(s * (A * q + RoundDiv(A * r, Scale)))
FMul(a, b) == CHOOSE r \in {FMulOf(p[1], p[2]) : p \in {<<a, b>>}} : TRUE

FDivOf(a, b) ==
    IF IsNaN(a) \/ IsNaN(b) THEN NaN
    ELSE IF IsInf(a) THEN (IF IsInf(b) THEN NaN
                           ELSE Inf(IF b.v < 0 THEN -a.v ELSE a.v))
    ELSE IF IsInf(b) THEN Zero
    ELSE IF b.v = 0 THEN (IF a.v = 0 THEN NaN ELSE Inf(Sgn(a.v)))
    ELSE Norm(RoundDiv(a.v * Scale, b.v))
FDiv(a, b) == CHOOSE r \in {FDivOf(p[1], p[2]) : p \in {<<a, b>>}} : TRUE

\* k * a and a / k for an integer literal k
FMulIntOf(k, a) ==
    IF IsNaN(a) THEN NaN
    ELSE IF IsInf(a) THEN (IF k = 0 THEN NaN ELSE Inf(Sgn(k) * a.v))
    ELSE Norm(k * a.v)
FMulInt(k, a) == CHOOSE r \in {FMulIntOf(p[1], p[2]) : p \in {<<k, a>>}} : TRUE

FDivIntOf(a, k) ==
    IF IsNaN(a) THEN NaN
    ELSE IF IsInf(a) THEN Inf(Sgn(k) * a.v)
    ELSE Fin(RoundDiv(a.v, k))
FDivInt(a, k) == CHOOSE r \in {FDivIntOf(p[1], p[2]) : p \in {<<a, k>>}} : TRUE

\* comparisons: false when either side is nan
FLtOf(a, b) ==
    IF IsNaN(a) \/ IsNaN(b) THEN FALSE
    ELSE IF IsInf(a) THEN a.v < 0 /\ ~(IsInf(b) /\ b.v < 0)
    ELSE IF IsInf(b) THEN b.v > 0
    ELSE a.v < b.v
FLt(a, b) == CHOOSE r \in {FLtOf(p[1], p[2]) : p \in {<<a, b>>}} : TRUE

FGt(a, b) == FLt(b, a)

\* floor of the square root of m >= 0, by bisection on lo..hi
RECURSIVE ISqrt(_, _, _)
ISqrt(m, lo, hi) ==
    IF lo >= hi THEN lo
    ELSE LET mid == (lo + hi + 1) \div 2
         IN  IF mid * mid <= m THEN ISqrt(m, mid, hi) ELSE ISqrt(m, lo, mid - 1)

\* no square root of a finite value is larger
SqrtTop == ISqrt(MaxAbs * Scale, 0, 46340)

FSqrtOf(a) ==
    IF IsNaN(a) THEN NaN
    ELSE IF IsInf(a) THEN (IF a.v > 0 THEN a ELSE NaN)
    ELSE IF a.v < 0 THEN NaN
    ELSE Fin(ISqrt(a.v * Scale, 0, SqrtTop))
FSqrt(a) == CHOOSE r \in {FSqrtOf(p) : p \in {a}} : TRUE

RECURSIVE FPowNat(_, _)
FPowNat(a, k) == IF k = 0 THEN One ELSE FMul(a, FPowNat(a, k - 1))

\* a ** (n2/2): the index n is carried as the integer n2 = 2n, so that the
\* half-integer indices the notebook uses (1.5) are exact
FPow(a, n2) ==
    IF n2 = 0 THEN One
    ELSE LET m == Abs(n2)
             whole == FPowNat(a, m \div 2)
             p == IF m % 2 = 0 THEN whole ELSE FMul(whole, FSqrt(a))
         IN  IF n2 > 0 THEN p ELSE FDiv(One, p)

\* the index n as a number
NVal(n2) == Fin(RoundDiv(n2 * Scale, 2))

\* ------------------------------------------------------------ vectors
VAddOf(u, v) == <<FAdd(u[1], v[1]), FAdd(u[2], v[2])>>
VAdd(u, v) == CHOOSE r \in {VAddOf(p[1], p[2]) : p \in {<<u, v>>}} : TRUE
VScaleOf(s, v) == <<FMul(s, v[1]), FMul(s, v[2])>>
VScale(s, v) == CHOOSE r \in {VScaleOf(p[1], p[2]) : p \in {<<s, v>>}} : TRUE
VMulIntOf(k, v) == <<FMulInt(k, v[1]), FMulInt(k, v[2])>>
VMulInt(k, v) == CHOOSE r \in {VMulIntOf(p[1], p[2]) : p \in {<<k, v>>}} : TRUE
VDivIntOf(v, k) == <<FDivInt(v[1], k), FDivInt(v[2], k)>>
VDivInt(v, k) == CHOOSE r \in {VDivIntOf(p[1], p[2]) : p \in {<<v, k>>}} : TRUE
VDivOf(u, v) == <<FDiv(u[1], v[1]), FDiv(u[2], v[2])>>
VDiv(u, v) == CHOOSE r \in {VDivOf(p[1], p[2]) : p \in {<<u, v>>}} : TRUE
VAbsOf(v) == <<FAbs(v[1]), FAbs(v[2])>>
VAbs(v) == CHOOSE r \in {VAbsOf(p) : p \in {v}} : TRUE

\* ---------------------------------------------------------- functions
\* def LE(x,y,n): [y[1], -y[0]**n - 2*y[1]/x]
LEOf(xx, yy, n2) ==
    <<yy[2], FSub(FNeg(FPow(yy[1], n2)), FDiv(FMulInt(2, yy[2]), xx))>>
LE(xx, yy, n2) ==
    CHOOSE r \in {LEOf(p[1], p[2], p[3]) : p \in {<<xx, yy, n2>>}} : TRUE

\* def center(h,n)
center(hh, n2) ==
    LET nv == NVal(n2)
        h2 == FMul(hh, hh)
        c == FMul(nv, FSub(FMulInt(8, nv), Fin(5 * Scale)))
        y0 == FAdd(One, FMul(h2, FAdd(FDivInt(FNeg(One), 6),
                  FMul(h2, FSub(FDivInt(nv, 120), FDivInt(FMul(c, h2), 15120))))))
        y1 == FMul(hh, FAdd(FDivInt(FNeg(One), 3),
                  FMul(h2, FSub(FDivInt(nv, 30), FDivInt(FMul(c, h2), 2520)))))
    IN  <<y0, y1>>

\* def rk4(t,h,y,f,*args), for the f and args it is called with: LE and n
rk4(t, hh, yy, n2) ==
    LET h12 == FDivInt(hh, 2)
        t12 == FAdd(t, h12)
        k1 == LE(t, yy, n2)
        k2 == LE(t12, VAdd(yy, VScale(h12, k1)), n2)
        k3 == LE(t12, VAdd(yy, VScale(h12, k2)), n2)
        k4 == LE(FAdd(t, hh), VAdd(yy, VScale(hh, k3)), n2)
        s == VAdd(VAdd(VAdd(k1, VMulInt(2, k2)), VMulInt(2, k3)), k4)
    IN  VAdd(yy, VDivInt(VScale(hh, s), 6))

\* Python's min() over the two elements of H_P
PyMinOf(v) == IF FLt(v[2], v[1]) THEN v[2] ELSE v[1]
PyMin(v) == CHOOSE r \in {PyMinOf(p) : p \in {v}} : TRUE

\* H_P = abs(y[i-1,:]/LE(x[i-1],y[i-1,:],n)), given the derivative
ScaleLength(yp, d) == VAbs(VDiv(yp, d))

\* h = 0.05*min(H_P)
StepSize(HP) == FMul(Lit(5, 100), PyMin(HP))

\* if (h < prec)
IsTerminal(hh, pr) == FLt(hh, pr)

\* variants of TerminalXi: the other scale length; the offset subtracted
TerminalXiOther(xi, HP) == FAdd(xi, HP[2])
TerminalXiBack(xi, HP) == FSub(xi, HP[1])

\* x_store[str_ptr] = x[i] + H_P[0]
TerminalXi(xi, HP) == FAdd(xi, HP[1])

\* variant of ShouldStore: the spacing left out
ShouldStoreNoGap(xi, last, dx) == FGt(xi, last)

\* if x[i] > x_store[str_ptr]+dx_store
ShouldStore(xi, last, dx) == FGt(xi, FAdd(last, dx))

\* variant of LoopHasNext: one iteration too many
LoopHasNextOff(j, ns) == j + 1 <= ns

\* for i in xrange(1,nstps): whether an iteration follows iteration j
LoopHasNext(j, ns) == j + 1 < ns

\* np.zeros(nstps), np.zeros((nstps,2))
Zeros(ns) == [j \in 0..(ns - 1) |-> Zero]
Zeros2(ns) == [j \in 0..(ns - 1) |-> <<Zero, Zero>>]

\* variant of Slice: one element short
SliceShort(a, stop) == [j \in 0..(stop - 2) |-> a[j]]

\* a[0:stop]
Slice(a, stop) == [j \in 0..(stop - 1) |-> a[j]]

\* no value
None == [none |-> TRUE]

\* --------------------------------------------------------- the inputs
\* n = -1, 0, 1, 1.5
NSet == {-2, 0, 2, 3}
\* h = 0, 0.5, 1, 1.5 and 2.447, where the series for n = 0 gives y0 = 0
HSet == {Zero, Lit(1, 2), One, Lit(3, 2), Lit(2447, 1000)}
NstpsSet == {1, 3, MaxSteps}
PrecSet == {Zero, Lit(3, 100)}
DxSet == {Zero, Lit(1, 10)}

\* ------------------------------------------------------------ actions
\* the call integrate(n, h, nstps, prec, dx_store), about to run
Init ==
    /\ pc = "STARTING"
    /\ n \in NSet
    /\ h_arg \in HSet
    /\ nstps \in NstpsSet
    /\ prec \in PrecSet
    /\ dx_store \in DxSet
    /\ h = h_arg
    /\ x = <<>> /\ y = <<>> /\ x_store = <<>> /\ y_store = <<>>
    /\ str_ptr = 0 /\ i = 0
    /\ dydx = <<Zero, Zero>> /\ H_P = <<Zero, Zero>>
    /\ ret = None
    /\ center_calls = 0 /\ rk4_calls = 0

\* lines 138-146: the arrays, the seed point, the write pointer
Start ==
    /\ pc = "STARTING"
    /\ LET y0 == center(h, n)
       IN  /\ x' = [Zeros(nstps) EXCEPT ![0] = h]
           /\ y' = [Zeros2(nstps) EXCEPT ![0] = y0]
           /\ x_store' = [Zeros(nstps) EXCEPT ![0] = h]
           /\ y_store' = [Zeros2(nstps) EXCEPT ![0] = y0]
    /\ str_ptr' = 0
    /\ center_calls' = center_calls + 1
    /\ pc' = "STEPPING"
    /\ UNCHANGED <<n, h_arg, nstps, prec, dx_store, h, i, dydx, H_P, ret, rk4_calls>>

\* lines 147-164: one iteration of the loop. Each local is bound to its value
\* once, as the assignment does.
Iterate ==
    /\ pc = "STEPPING"
    /\ LoopHasNext(i, nstps)
    /\ \E j \in {i + 1} :
       \E d \in {LE(x[j - 1], y[j - 1], n)} :
       \E HP \in {ScaleLength(y[j - 1], d)} :
       \E hh \in {StepSize(HP)} :
       \E yj \in {rk4(x[j - 1], hh, y[j - 1], n)} :
       \E xj \in {FAdd(x[j - 1], hh)} :
           /\ i' = j
           /\ dydx' = d
           /\ H_P' = HP
           /\ h' = hh
           /\ y' = [y EXCEPT ![j] = yj]
           /\ x' = [x EXCEPT ![j] = xj]
           /\ rk4_calls' = rk4_calls + 1
           /\ IF IsTerminal(hh, prec)
              THEN /\ str_ptr' = str_ptr + 1
                   /\ x_store' = [x_store EXCEPT ![str_ptr + 1] = TerminalXi(xj, HP)]
                   /\ y_store' = [y_store EXCEPT ![str_ptr + 1] = yj]
                   /\ pc' = "TERMINATING"
              ELSE IF ShouldStore(xj, x_store[str_ptr], dx_store)
              THEN /\ str_ptr' = str_ptr + 1
                   /\ x_store' = [x_store EXCEPT ![str_ptr + 1] = xj]
                   /\ y_store' = [y_store EXCEPT ![str_ptr + 1] = yj]
                   /\ pc' = "STEPPING"
              ELSE /\ UNCHANGED <<str_ptr, x_store, y_store>>
                   /\ pc' = "STEPPING"
    /\ UNCHANGED <<n, h_arg, nstps, prec, dx_store, ret, center_calls>>

\* line 166, after the break or after the last iteration
Return ==
    /\ \/ pc = "TERMINATING"
       \/ pc = "STEPPING" /\ ~LoopHasNext(i, nstps)
    /\ ret' = <<Slice(x_store, str_ptr + 1), Slice(y_store, str_ptr + 1)>>
    /\ pc' = "DONE"
    /\ UNCHANGED <<n, h_arg, nstps, prec, dx_store, h, x, y, x_store, y_store,
                   str_ptr, i, dydx, H_P, center_calls, rk4_calls>>

Next == Start \/ Iterate \/ Return

Spec == Init /\ [][Next]_vars

\* the call runs to completion: nothing suspends it
FairSpec == Spec /\ WF_vars(Next)

\* ------------------------------------------------------------- claims
\* the configuration the interface asks for: h, prec, dx_store > 0, n >= 0
ValidConfig ==
    /\ FGt(h_arg, Zero) /\ FGt(prec, Zero) /\ FGt(dx_store, Zero)
    /\ n >= 0

\* the last iteration begun took the break of line 158
BrokeOut == i >= 1 /\ FLt(h, prec)

\* the write pointer of the last regularly stored point
RegularTop == IF BrokeOut THEN str_ptr - 1 ELSE str_ptr

\* C1: a run that performs all its iterations with no step size below prec
\* ends in a reported NonConvergence failure: it returns no sequence.
C1_NonConvergenceReported ==
    (pc = "DONE" /\ ValidConfig /\ i >= 1 /\ i = nstps - 1 /\ ~FLt(h, prec))
        => ret = None

\* C2: with a non-positive h, prec or dx_store, or a negative n, the call is
\* rejected before the starter is evaluated or a step taken, and returns no
\* trajectory.
C2_InvalidConfigurationRejected ==
    ~ValidConfig => (center_calls = 0 /\ rk4_calls = 0 /\ ret = None)

\* C3: the iteration whose step size is below prec appends exactly one point,
\* (x[i] + H_P[0], y[i]) with H_P[0] = |y0/y1| at the point stepped from, without
\* the dx_store check, and stops: afterwards no step is taken, nothing stored.
C3_TerminalStep ==
    [][/\ (pc = "STEPPING" /\ i' = i + 1 /\ FLt(h', prec)) =>
            /\ x'[i'] = FAdd(x[i], h')
            /\ str_ptr' = str_ptr + 1
            /\ x_store' = [x_store EXCEPT
                   ![str_ptr + 1] = FAdd(x'[i'], FAbs(FDiv(y[i][1], y[i][2])))]
            /\ y_store' = [y_store EXCEPT ![str_ptr + 1] = y'[i']]
            /\ pc' = "TERMINATING"
       /\ (pc \in {"TERMINATING", "DONE"}) =>
            /\ pc' = "DONE"
            /\ UNCHANGED <<rk4_calls, i, x, y, x_store, y_store, str_ptr>>
      ]_vars

\* a terminal iteration has run, after regular ones, at a point the storage
\* check would have stored
C3_Witness ==
    /\ pc = "TERMINATING" /\ ValidConfig /\ i >= 3 /\ str_ptr >= 2
    /\ FGt(x[i], FAdd(x_store[str_ptr - 1], dx_store))

\* C4 as stated: with h > 0 and dx_store > 0 the returned xi values are
\* strictly increasing, the step to the terminal point included.
C4_StrictlyIncreasing ==
    (pc = "DONE" /\ FGt(h_arg, Zero) /\ FGt(dx_store, Zero)) =>
        \A k \in 1..str_ptr : FGt(ret[1][k], ret[1][k - 1])

\* C4 as amended: with h > 0 and dx_store > 0 the stored xi values are
\* strictly increasing among the regularly stored points, and the terminal
\* point's xi is above the last regularly stored xi or equal to it.
C4_IncreasingUpToTerminal ==
    (pc # "STARTING" /\ FGt(h_arg, Zero) /\ FGt(dx_store, Zero)) =>
        /\ \A k \in 1..RegularTop : FGt(x_store[k], x_store[k - 1])
        /\ BrokeOut => \/ FGt(x_store[str_ptr], x_store[str_ptr - 1])
                       \/ x_store[str_ptr] = x_store[str_ptr - 1]
        /\ pc = "DONE" => ret[1] = [k \in 0..str_ptr |-> x_store[k]]

\* a run returned regular points and a terminal point
C4_Witness ==
    /\ pc = "DONE" /\ ValidConfig /\ BrokeOut /\ str_ptr >= 3

\* C5: every returned sequence starts with (h, center(h, n)) and ends with
\* the terminal point written by the branch for a step size below prec.
C5_FirstAndLastStored ==
    (pc = "DONE" /\ ValidConfig /\ nstps > 1) =>
        /\ ret[1][0] = h_arg
        /\ ret[2][0] = center(h_arg, n)
        /\ BrokeOut
        /\ ret[1][str_ptr] = FAdd(x[i], H_P[1])
        /\ ret[2][str_ptr] = y[i]

\* C6: an iteration that does not terminate stores (x[i], y[i]) if and only if
\* x[i] > x_store[str_ptr] + dx_store, and otherwise leaves the store and its
\* pointer alone; so consecutive regular points are more than dx_store apart.
C6_StorageCheck ==
    /\ [](pc # "STARTING" =>
            \A k \in 1..RegularTop :
                FGt(x_store[k], FAdd(x_store[k - 1], dx_store)))
    /\ [][(pc = "STEPPING" /\ i' = i + 1 /\ ~FLt(h', prec)) =>
            IF FGt(x'[i'], FAdd(x_store[str_ptr], dx_store))
            THEN /\ str_ptr' = str_ptr + 1
                 /\ x_store' = [x_store EXCEPT ![str_ptr + 1] = x'[i']]
                 /\ y_store' = [y_store EXCEPT ![str_ptr + 1] = y'[i']]
            ELSE UNCHANGED <<str_ptr, x_store, y_store>>
         ]_vars

\* iterations have stored points and have skipped points
C6_Witness ==
    /\ pc = "STEPPING" /\ ValidConfig /\ str_ptr >= 2 /\ i >= str_ptr + 2

\* the phases a step may pass between
PhaseOrder ==
    <<pc, pc'>> \in {<<"STARTING", "STEPPING">>, <<"STEPPING", "STEPPING">>,
                     <<"STEPPING", "TERMINATING">>, <<"TERMINATING", "DONE">>,
                     <<"STEPPING", "DONE">>}

C8_DomainErrorRaised ==
    i >= 1 =>
        /\ x[i - 1] # Zero
        /\ ~(FLt(y[i - 1][1], Zero) /\ n % 2 = 1)
        /\ IsFin(dydx[1]) /\ IsFin(dydx[2])

\* C10: 0 <= str_ptr <= i < nstps throughout, the arrays keep their nstps
\* elements, and the two returned sequences have the same length
\* str_ptr + 1, from 1 to nstps.
C10_PointerAndLengths ==
    /\ 0 <= str_ptr /\ str_ptr <= i /\ i < nstps
    /\ pc # "STARTING" =>
          /\ DOMAIN x_store = 0..(nstps - 1)
          /\ DOMAIN y_store = 0..(nstps - 1)
    /\ pc = "DONE" =>
          /\ DOMAIN ret[1] = 0..str_ptr
          /\ DOMAIN ret[2] = 0..str_ptr
          /\ 1 <= str_ptr + 1 /\ str_ptr + 1 <= nstps

\* a run filled its arrays: every iteration stored a point
C10_Witness ==
    /\ pc = "DONE" /\ nstps >= 3 /\ str_ptr = i /\ str_ptr + 1 = nstps

====
